---- MODULE Spec2Model ----
(***************************************************************************)
(* Model of miketibb/ticket_tracker: the Ticketmaster adapter              *)
(* (src/src/api/ticketmaster.py), the session scope                        *)
(* (src/src/db/database.py), the three tables (src/src/db/models.py), the   *)
(* reconciliation engine (src/src/data_collector.py) and the tracking       *)
(* workflow (src/scripts/track_event.py).                                   *)
(*                                                                         *)
(* Python values: an optional value (None, or a key missing from a dict)   *)
(* is the empty tuple, a present value x is <<x>>.  Lists are sequences.   *)
(* The program is single threaded; the only thing that moves between two   *)
(* steps of an operation is the wall clock.                                *)
(***************************************************************************)
EXTENDS Integers, Sequences, FiniteSets, TLC

VARIABLES
    events,      \* rows of table "events" (committed)
    snapshots,   \* rows of table "price_snapshots" (committed)
    interests,   \* rows of table "user_interests" (committed)
    clock,       \* datetime.now(), in clock ticks
    sessions,    \* stack of the open session scopes, innermost last
    pc,          \* position of the running operation, "idle" between operations
    op,          \* the operation that runs or ran last
    arg,         \* its input
    call,        \* the frame of the store_event call in progress or just ended
    loc,         \* locals of the running operation
    outcome,     \* how the last operation ended: "none", "returned", "raised"
    result,      \* what it returned, or the exception it raised
    before,      \* the committed tables when the operation started
    scope        \* the session scope that ended last: how its body ended and
                 \* which calls get_session made on the session

vars == <<events, snapshots, interests, clock, sessions, pc, op, arg, call, loc,
          outcome, result, before, scope>>

----------------------------------------------------------------------------
(* Bounds of the model *)

MaxTime == 1        \* the clock runs from 0 to MaxTime
MaxSnapshots == 3   \* no operation starts that could store more snapshots
MaxBatch == 3       \* longest list search_events returns
MaxInterests == 1   \* track_event does not start with this many rows stored

----------------------------------------------------------------------------
(* Python's None / missing key, and dict.get *)

None == <<>>
Some(x) == <<x>>
Truthy(o) == o # None
Get(o, default) == IF o = None THEN default ELSE o[1]

----------------------------------------------------------------------------
(* Raw records of the provider, as search_events / get_event_details return *)
(* them (tests/conftest.py builds one in sample_raw_event).                 *)

FullVenue == [name |-> Some("Venue 1"), city |-> Some("Los Angeles"),
              state |-> Some("CA")]

RawA1 == [id |-> Some("E1"), name |-> Some("Concert"),
          url |-> Some("https://example.com/E1"),
          priceRanges |-> <<[min |-> Some(50), max |-> Some(150),
                             currency |-> Some("USD")]>>,
          venues |-> <<FullVenue>>,
          dateTime |-> Some("2024-12-01T20:00:00Z"),
          classifications |-> <<[segment |-> Some("Music"),
                                 genre |-> Some("Rock")]>>]

\* the same identifier seen again: other name, other prices, no currency,
\* no venue, an unparsable date, a segment without genre, no url
RawA2 == [id |-> Some("E1"), name |-> Some("Concert (moved)"),
          url |-> None,
          priceRanges |-> <<[min |-> Some(45), max |-> None,
                             currency |-> None]>>,
          venues |-> <<>>,
          dateTime |-> Some("not-a-date"),
          classifications |-> <<[segment |-> Some("Music"), genre |-> None]>>]

RawB1 == [id |-> Some("E2"), name |-> Some("Game"),
          url |-> Some("https://example.com/E2"),
          priceRanges |-> <<>>,
          venues |-> <<[name |-> Some("Arena"), city |-> None, state |-> None]>>,
          dateTime |-> None,
          classifications |-> <<>>]

RawNoId == [RawB1 EXCEPT !.id = None]
RawNoName == [RawB1 EXCEPT !.name = None]

\* what a search can return, and what a detail request can return
RawEvents == {RawA1, RawA2, RawB1, RawNoId}
DetailBodies == RawEvents \cup {RawNoName}

\* datetime.fromisoformat on the strings above: the instant, or ValueError
\* (in clock ticks: the 2024 date lies before every run of the program)
IsoInstant(s) == CASE s = "2024-12-01T20:00:00Z" -> Some(-1)
                   [] s = "2031-01-15T20:00:00Z" -> Some(9)
                   [] OTHER -> None

----------------------------------------------------------------------------
(* TicketmasterAPI.parse_event_data *)

first_or_empty(list, field) ==
    IF list # <<>> THEN list[1][field] ELSE None

parse_event_type(classifications) ==
    LET segment == first_or_empty(classifications, "segment")
        genre == first_or_empty(classifications, "genre")
    IN  IF classifications = <<>> THEN None
        ELSE IF Truthy(segment) /\ Truthy(genre)
             THEN Some(segment[1] \o "/" \o genre[1])
             ELSE IF Truthy(segment) THEN segment ELSE genre

parse_start_date(dateTime) ==
    IF ~Truthy(dateTime) THEN None
    ELSE LET t == IsoInstant(dateTime[1])
         IN  IF t = None THEN None              \* ValueError: pass
             ELSE Some([wall |-> t[1], tz |-> "UTC"])

\* the exception parse_event_data raises on this record, or None
parse_error(event) ==
    IF event.id = None THEN Some("KeyError: 'id'")
    ELSE IF event.name = None THEN Some("KeyError: 'name'")
    ELSE None

parse_event_data(event) ==
    [id |-> event.id[1],
     name |-> event.name[1],
     event_type |-> parse_event_type(event.classifications),
     start_date |-> parse_start_date(event.dateTime),
     venue_name |-> first_or_empty(event.venues, "name"),
     city |-> first_or_empty(event.venues, "city"),
     state |-> first_or_empty(event.venues, "state"),
     url |-> event.url,
     min_price |-> first_or_empty(event.priceRanges, "min"),
     max_price |-> first_or_empty(event.priceRanges, "max"),
     currency |-> IF event.priceRanges # <<>>
                  THEN Get(event.priceRanges[1].currency, "USD")
                  ELSE "USD"]

\* the normalized records the adapter can hand to store_event
NormalizedRecords ==
    {parse_event_data(e) : e \in {r \in RawEvents : parse_error(r) = None}}

----------------------------------------------------------------------------
(* The tables of models.py *)

\* a DateTime column keeps the wall-clock fields and drops the time zone
DateTimeColumn(d) == IF d = None THEN None
                     ELSE Some([wall |-> d[1].wall, tz |-> "naive"])

\* Event(...) of store_event: the row the INSERT writes
EventRow(data) ==
    [id |-> data.id,
     name |-> data.name,
     event_type |-> data.event_type,
     start_date |-> DateTimeColumn(data.start_date),
     venue_name |-> data.venue_name,
     city |-> data.city,
     state |-> data.state,
     url |-> data.url]

\* (mutant) a missing price is written as 0
SnapshotValues_zero_for_null(data) ==
    [event_id |-> data.id,
     min_price |-> IF data.min_price = None THEN Some(0) ELSE data.min_price,
     max_price |-> IF data.max_price = None THEN Some(0) ELSE data.max_price,
     currency |-> data.currency]

\* PriceSnapshot(...) of store_event, before the INSERT gives it id and time
SnapshotValues(data) ==
    [event_id |-> data.id,
     min_price |-> data.min_price,
     max_price |-> data.max_price,
     currency |-> data.currency]

\* the row as inserted: autoincrement id, snapshot_time default now()
SnapshotRow(s, table, now) ==
    [id |-> Cardinality(table) + 1,
     event_id |-> s.event_id,
     min_price |-> s.min_price,
     max_price |-> s.max_price,
     currency |-> s.currency,
     snapshot_time |-> now]

\* UserInterest(...) of track_event, and the row as inserted.  The class maps
\* id, event_id, user_email, target_price and created_at: there is no
\* is_active column.
UserInterestColumns == {"id", "event_id", "user_email", "target_price", "created_at"}

InterestValues(event_id, user_email, target_price) ==
    [event_id |-> event_id, user_email |-> user_email, target_price |-> target_price]

InterestRow(v, table) ==
    [id |-> Cardinality(table) + 1,
     event_id |-> v.event_id,
     user_email |-> v.user_email,
     target_price |-> v.target_price]

\* (mutant) the id column identifies nothing: no lookup and no index finds a row
EventsWithId_unkeyed(table, event_id) == {}

\* the rows of events with this id: Event.id identifies the row, in the
\* primary key index as in filter_by(id=...)
EventsWithId(table, event_id) == {e \in table : e.id = event_id}

\* Event.id is the primary key
EventPrimaryKeyViolated(table, new) ==
    \E e \in new : EventsWithId(table, e.id) # {}

\* (mutant) the table has no unique constraint
SnapshotUniqueViolated_unenforced(table, new, now) == FALSE

\* UniqueConstraint("event_id", "snapshot_time")
SnapshotUniqueViolated(table, new, now) ==
    \E s \in new : \E x \in table :
        x.event_id = s.event_id /\ x.snapshot_time = now

\* session.query(Event).filter_by(id=event_id).first()
QueryEvent(table, event_id) ==
    IF EventsWithId(table, event_id) # {}
    THEN Some(CHOOSE e \in EventsWithId(table, event_id) : TRUE)
    ELSE None

----------------------------------------------------------------------------
(* Database.get_session: the scope pushed on entry, and its exit *)

NewSession == [events |-> {}, snapshots |-> {}, interests |-> {}]

\* session.commit() fails with IntegrityError when the flush breaks a constraint
CommitFails(s) ==
    \/ EventPrimaryKeyViolated(events, s.events)
    \/ SnapshotUniqueViolated(snapshots, s.snapshots, clock)

\* the exit of the innermost scope: commit, or rollback when the body raised
\* (bodyRaised) or the commit fails; close in both cases
SessionCommits(bodyRaised) ==
    ~bodyRaised /\ ~CommitFails(sessions[Len(sessions)])

\* (mutant) the pending Event is not flushed with the rest of the scope
CommittedEvents_not_flushed(s) == events

CommittedEvents(s) == events \cup s.events

CommittedSnapshots(s) ==
    snapshots \cup {SnapshotRow(x, snapshots, clock) : x \in s.snapshots}

CommittedInterests(s) ==
    interests \cup {InterestRow(x, interests) : x \in s.interests}

\* (mutant) no finally clause: the session is closed after a commit only
get_session_calls_no_finally(bodyRaised, commitFails) ==
    IF bodyRaised THEN <<"rollback">>
    ELSE IF commitFails THEN <<"commit", "rollback">>
    ELSE <<"commit", "close">>

\* the calls get_session makes on the session once the body has ended:
\* try: yield; commit() / except: rollback(); raise / finally: close()
get_session_calls(bodyRaised, commitFails) ==
    (IF bodyRaised THEN <<"rollback">>
     ELSE IF commitFails THEN <<"commit", "rollback">>
     ELSE <<"commit">>) \o <<"close">>

NoScope == [body |-> "none", commit |-> "none", calls |-> <<>>, raises |-> FALSE]

\* the record of a scope that ends: the except clause re-raises what the body
\* or the commit raised
ScopeEnded(bodyRaised, commitFails) ==
    [body |-> IF bodyRaised THEN "raised" ELSE "returned",
     commit |-> IF bodyRaised THEN "none"
                ELSE IF commitFails THEN "failed" ELSE "done",
     calls |-> get_session_calls(bodyRaised, commitFails),
     raises |-> bodyRaised \/ commitFails]

\* (mutant) one transaction for the whole operation: a rollback takes the
\* tables back to where the operation found them
get_session_exit_rolls_back_all(bodyRaised) ==
    LET s == sessions[Len(sessions)]
    IN  /\ sessions' = SubSeq(sessions, 1, Len(sessions) - 1)
        /\ scope' = ScopeEnded(bodyRaised, CommitFails(s))
        /\ IF SessionCommits(bodyRaised)
           THEN /\ events' = CommittedEvents(s)
                /\ snapshots' = CommittedSnapshots(s)
                /\ interests' = CommittedInterests(s)
           ELSE /\ events' = before.events
                /\ snapshots' = before.snapshots
                /\ interests' = before.interests

get_session_exit(bodyRaised) ==
    LET s == sessions[Len(sessions)]
    IN  /\ sessions' = SubSeq(sessions, 1, Len(sessions) - 1)
        /\ scope' = ScopeEnded(bodyRaised, CommitFails(s))
        /\ IF SessionCommits(bodyRaised)
           THEN /\ events' = CommittedEvents(s)
                /\ snapshots' = CommittedSnapshots(s)
                /\ interests' = CommittedInterests(s)
           ELSE /\ events' = events
                /\ snapshots' = snapshots
                /\ interests' = interests

----------------------------------------------------------------------------
(* DataCollector.store_event *)

\* (mutant) the test of "if not event" is inverted: a new event is not added
store_event_session_never_adds(data) ==
    [events |-> {}, snapshots |-> {SnapshotValues(data)}, interests |-> {}]

\* (mutant) the event is added whether or not it is stored already
store_event_session_always_adds(data) ==
    [events |-> {EventRow(data)}, snapshots |-> {SnapshotValues(data)},
     interests |-> {}]

\* the body of the with block: look the event up, add the snapshot, add the
\* event when there is none; the scope it leaves pending and what it returns
store_event_session(data) ==
    [events |-> IF QueryEvent(events, data.id) = None
                THEN {EventRow(data)} ELSE {},
     snapshots |-> {SnapshotValues(data)},
     interests |-> {}]

store_event_return(data) ==
    IF QueryEvent(events, data.id) = None THEN "created" ELSE "updated"

\* a caller enters store_event: the scope is open, the body has run
store_event_enter(caller, data) ==
    /\ sessions' = Append(sessions, store_event_session(data))
    /\ call' = [caller |-> caller, data |-> data,
                ret |-> store_event_return(data), status |-> "running", at |-> 0]
    /\ pc' = "store_event_exit"

\* the with block of store_event ends: commit or IntegrityError
store_event_exit ==
    /\ pc = "store_event_exit"
    /\ get_session_exit(FALSE)
    /\ call' = [call EXCEPT !.status =
                    IF SessionCommits(FALSE) THEN "returned" ELSE "raised",
                             !.at = clock]
    /\ IF call.caller = "api"
       THEN /\ pc' = "idle"
            /\ outcome' = IF SessionCommits(FALSE) THEN "returned" ELSE "raised"
            /\ result' = Some(IF SessionCommits(FALSE) THEN call.ret ELSE "IntegrityError")
       ELSE /\ pc' = call.caller
            /\ UNCHANGED <<outcome, result>>
    /\ UNCHANGED <<clock, op, arg, loc, before>>

----------------------------------------------------------------------------
(* Operations *)

Tables == [events |-> events, snapshots |-> snapshots, interests |-> interests]

NoCall == [caller |-> "none", data |-> None, ret |-> "none", status |-> "none",
           at |-> 0]
\* resp is the provider's answer to the detail request of track_event
NoLoc == [events |-> <<>>, i |-> 0, fetched |-> 0, created |-> 0, updated |-> 0,
          errors |-> <<>>, resp |-> None]

\* an operation that stores up to n snapshots may start
MayStart(n) ==
    /\ pc = "idle"
    /\ Cardinality(snapshots) + n <= MaxSnapshots

Begin(name, input) ==
    /\ op' = name
    /\ arg' = input
    /\ before' = Tables
    /\ scope' = NoScope

Running ==
    /\ outcome' = "none"
    /\ result' = None

\* collector.store_event(data), called directly as the tests do
StoreRecord ==
    \E data \in NormalizedRecords :
        /\ MayStart(1)
        /\ Begin("store_event", data)
        /\ Running
        /\ store_event_enter("api", data)
        /\ loc' = NoLoc
        /\ UNCHANGED <<events, snapshots, interests, clock>>

----------------------------------------------------------------------------
(* DataCollector.collect_events, search mode *)

\* the lists search_events can return
SearchResults == UNION {[1..n -> RawEvents] : n \in 0..MaxBatch}

\* (mutant) the defaults of the two get calls are swapped
error_entry_swapped_defaults(event, e) ==
    [event_id |-> Get(event.id, "Unknown"),
     event_name |-> Get(event.name, "unknown"),
     error |-> e]

\* the entry the except clause appends for this raw record
error_entry(event, e) ==
    [event_id |-> Get(event.id, "unknown"),
     event_name |-> Get(event.name, "Unknown"),
     error |-> e]

\* the dictionary collect_events returns
collect_events_summary(l) ==
    [fetched |-> l.fetched, created |-> l.created, updated |-> l.updated,
     errors |-> l.errors]

\* search_events raises (requests.get or raise_for_status): nothing catches it
collect_events_search_fails ==
    /\ MayStart(0)
    /\ Begin("collect_events", <<>>)
    /\ outcome' = "raised"
    /\ result' = Some("RequestException")
    /\ pc' = "idle"
    /\ loc' = NoLoc
    /\ call' = NoCall
    /\ UNCHANGED <<events, snapshots, interests, clock, sessions>>

\* search_events returns; fetched = len(events), the counters start at 0
collect_events_search ==
    \E found \in SearchResults :
        /\ MayStart(Len(found))
        /\ Begin("collect_events", found)
        /\ Running
        /\ loc' = [events |-> found, i |-> 1, fetched |-> Len(found),
                   created |-> 0, updated |-> 0, errors |-> <<>>, resp |-> None]
        /\ pc' = "collect_events"
        /\ call' = NoCall
        /\ UNCHANGED <<events, snapshots, interests, clock, sessions>>

\* (mutant) no except clause around the record: the first failure ends the loop
collect_events_parse_error_aborts ==
    /\ pc = "collect_events"
    /\ loc.i <= Len(loc.events)
    /\ parse_error(loc.events[loc.i]) # None
    /\ loc' = [loc EXCEPT !.i = Len(loc.events) + 1,
                          !.errors = Append(@, error_entry(loc.events[loc.i],
                                                parse_error(loc.events[loc.i])[1]))]
    /\ UNCHANGED <<events, snapshots, interests, clock, sessions, pc, op, arg, call,
                   outcome, result, before, scope>>

\* one record of the loop: parse_event_data raises, the except clause records it
collect_events_parse_error ==
    /\ pc = "collect_events"
    /\ loc.i <= Len(loc.events)
    /\ parse_error(loc.events[loc.i]) # None
    /\ loc' = [loc EXCEPT !.i = @ + 1,
                          !.errors = Append(@, error_entry(loc.events[loc.i],
                                                parse_error(loc.events[loc.i])[1]))]
    /\ UNCHANGED <<events, snapshots, interests, clock, sessions, pc, op, arg, call,
                   outcome, result, before, scope>>

\* one record of the loop: parsed, store_event entered
collect_events_store ==
    /\ pc = "collect_events"
    /\ loc.i <= Len(loc.events)
    /\ parse_error(loc.events[loc.i]) = None
    /\ store_event_enter("collect_events_stored", parse_event_data(loc.events[loc.i]))
    /\ UNCHANGED <<events, snapshots, interests, clock, op, arg, loc,
                   outcome, result, before, scope>>

\* (mutant) every stored record is counted as created
collect_events_stored_counts_created ==
    /\ pc = "collect_events_stored"
    /\ loc' = IF call.status = "returned"
              THEN [loc EXCEPT !.i = @ + 1, !.created = @ + 1]
              ELSE [loc EXCEPT !.i = @ + 1,
                               !.errors = Append(@, error_entry(loc.events[loc.i],
                                                                "IntegrityError"))]
    /\ pc' = "collect_events"
    /\ UNCHANGED <<events, snapshots, interests, clock, sessions, op, arg, call,
                   outcome, result, before, scope>>

\* store_event is back: count the result, or record the exception
collect_events_stored ==
    /\ pc = "collect_events_stored"
    /\ loc' = IF call.status = "returned"
              THEN [loc EXCEPT !.i = @ + 1,
                               !.created = IF call.ret = "created" THEN @ + 1 ELSE @,
                               !.updated = IF call.ret = "updated" THEN @ + 1 ELSE @]
              ELSE [loc EXCEPT !.i = @ + 1,
                               !.errors = Append(@, error_entry(loc.events[loc.i],
                                                                "IntegrityError"))]
    /\ pc' = "collect_events"
    /\ UNCHANGED <<events, snapshots, interests, clock, sessions, op, arg, call,
                   outcome, result, before, scope>>

\* the loop is over: return the summary
collect_events_return ==
    /\ pc = "collect_events"
    /\ loc.i > Len(loc.events)
    /\ outcome' = "returned"
    /\ result' = Some(collect_events_summary(loc))
    /\ pc' = "idle"
    /\ UNCHANGED <<events, snapshots, interests, clock, sessions, op, arg, call, loc,
                   before, scope>>

----------------------------------------------------------------------------
(* TicketmasterAPI.get_event_details over _make_request *)

\* what the provider can answer to GET events/{event_id}.json: a body, an HTTP
\* error status (raise_for_status raises HTTPError), or no answer at all
\* (requests.get raises ConnectionError or Timeout)
DetailResponses(event_id) ==
    {[kind |-> "ok", status |-> 200, body |-> Some(r)] :
        r \in {x \in DetailBodies : x.id = Some(event_id)}}
    \cup {[kind |-> "http_error", status |-> st, body |-> None] : st \in {404, 500}}
    \cup {[kind |-> "connection_error", status |-> 0, body |-> None]}

\* _make_request raises on anything but a 2xx answer
make_request_raises(resp) == resp.kind # "ok"

\* get_event_details catches HTTPError only
get_event_details_raises(resp) == make_request_raises(resp) /\ resp.kind # "http_error"
get_event_details(resp) == IF resp.kind = "http_error" THEN None ELSE resp.body

----------------------------------------------------------------------------
(* track_event of scripts/track_event.py *)

\* the command lines: --event-id, and --email with an optional --target-price
TrackIds == {"E1", "E2"}
TrackRequests ==
    {[user_email |-> "ann@example.com", target_price |-> None],
     [user_email |-> "ann@example.com", target_price |-> Some(100)],
     [user_email |-> "bob@example.com", target_price |-> Some(80)]}

\* (mutant) the lookup filters on a pair no row has and finds nothing
QueryInterest_never_finds(table, event_id, user_email) == None

\* session.query(UserInterest).filter_by(event_id=..., user_email=...).first()
QueryInterest(table, event_id, user_email) ==
    IF \E i \in table : i.event_id = event_id /\ i.user_email = user_email
    THEN Some(CHOOSE i \in table : i.event_id = event_id /\ i.user_email = user_email)
    ELSE None

\* reading an attribute the class does not map raises AttributeError
getattr_raises(columns, key) == key \notin columns

\* Query.filter_by on a key the class does not map raises InvalidRequestError
filter_by_raises(columns, key) == key \notin columns

Raise(e) ==
    /\ outcome' = "raised"
    /\ result' = Some(e)
    /\ pc' = "idle"

Return(v) ==
    /\ outcome' = "returned"
    /\ result' = Some(v)
    /\ pc' = "idle"

\* the session scope opens and the event is looked up
track_event_begin ==
    \E event_id \in TrackIds, req \in TrackRequests :
        /\ MayStart(1)
        /\ \/ Cardinality(interests) < MaxInterests
           \/ \E i \in interests :
                 i.event_id = event_id /\ i.user_email = req.user_email
        /\ Begin("track_event", [event_id |-> event_id, user_email |-> req.user_email,
                                 target_price |-> req.target_price])
        /\ Running
        /\ sessions' = Append(sessions, NewSession)
        /\ pc' = IF QueryEvent(events, event_id) = None
                 THEN "track_event_fetch" ELSE "track_event_interest"
        /\ call' = NoCall
        /\ loc' = NoLoc
        /\ UNCHANGED <<events, snapshots, interests, clock>>

\* the detail request fails below HTTP: the exception leaves the scope
track_event_fetch_raises ==
    /\ pc = "track_event_fetch"
    /\ \E resp \in DetailResponses(arg.event_id) :
          /\ get_event_details_raises(resp)
          /\ loc' = [loc EXCEPT !.resp = Some(resp)]
    /\ get_session_exit(TRUE)
    /\ Raise("ConnectionError")
    /\ UNCHANGED <<clock, op, arg, call, before>>

\* (mutant) the test of "if not api_event" is missing: the event is tracked
\* although the provider does not know it
track_event_not_found_tracks_anyway ==
    /\ pc = "track_event_fetch"
    /\ \E resp \in DetailResponses(arg.event_id) :
          /\ ~get_event_details_raises(resp)
          /\ get_event_details(resp) = None
          /\ loc' = [loc EXCEPT !.resp = Some(resp)]
    /\ sessions' = [sessions EXCEPT ![Len(sessions)].interests =
                        @ \cup {InterestValues(arg.event_id, arg.user_email,
                                               arg.target_price)}]
    /\ pc' = "track_event_exit"
    /\ UNCHANGED <<events, snapshots, interests, clock, op, arg, call,
                   outcome, result, before, scope>>

\* get_event_details returns None: return False from inside the scope
track_event_not_found ==
    /\ pc = "track_event_fetch"
    /\ \E resp \in DetailResponses(arg.event_id) :
          /\ ~get_event_details_raises(resp)
          /\ get_event_details(resp) = None
          /\ loc' = [loc EXCEPT !.resp = Some(resp)]
    /\ get_session_exit(FALSE)
    /\ Return("False")
    /\ UNCHANGED <<clock, op, arg, call, before>>

\* the detail lacks a required field: parse_event_data raises
track_event_parse_raises ==
    /\ pc = "track_event_fetch"
    /\ \E resp \in DetailResponses(arg.event_id) :
          /\ ~get_event_details_raises(resp)
          /\ get_event_details(resp) # None
          /\ parse_error(get_event_details(resp)[1]) # None
          /\ loc' = [loc EXCEPT !.resp = Some(resp)]
          /\ get_session_exit(TRUE)
          /\ Raise(parse_error(get_event_details(resp)[1])[1])
    /\ UNCHANGED <<clock, op, arg, call, before>>

\* the detail is parsed and handed to collector.store_event, which opens its
\* own scope inside the scope of track_event
track_event_store ==
    /\ pc = "track_event_fetch"
    /\ \E resp \in DetailResponses(arg.event_id) :
          /\ ~get_event_details_raises(resp)
          /\ get_event_details(resp) # None
          /\ parse_error(get_event_details(resp)[1]) = None
          /\ loc' = [loc EXCEPT !.resp = Some(resp)]
          /\ store_event_enter("track_event_stored",
                               parse_event_data(get_event_details(resp)[1]))
    /\ UNCHANGED <<events, snapshots, interests, clock, op, arg,
                   outcome, result, before, scope>>

\* store_event is back: its exception leaves the scope, its result is truthy
track_event_stored ==
    /\ pc = "track_event_stored"
    /\ IF call.status = "raised"
       THEN /\ get_session_exit(TRUE)
            /\ Raise("IntegrityError")
       ELSE /\ pc' = "track_event_interest"
            /\ UNCHANGED <<events, snapshots, interests, sessions, outcome, result,
                           scope>>
    /\ UNCHANGED <<clock, op, arg, call, loc, before>>

\* the pair is tracked already: existing_interest.is_active is read
track_event_existing ==
    /\ pc = "track_event_interest"
    /\ QueryInterest(interests, arg.event_id, arg.user_email) # None
    /\ getattr_raises(UserInterestColumns, "is_active")
    /\ get_session_exit(TRUE)
    /\ Raise("AttributeError")
    /\ UNCHANGED <<clock, op, arg, call, loc, before>>

\* the pair is not tracked: session.add(new_interest)
track_event_new ==
    /\ pc = "track_event_interest"
    /\ QueryInterest(interests, arg.event_id, arg.user_email) = None
    /\ sessions' = [sessions EXCEPT ![Len(sessions)].interests =
                        @ \cup {InterestValues(arg.event_id, arg.user_email,
                                               arg.target_price)}]
    /\ pc' = "track_event_exit"
    /\ UNCHANGED <<events, snapshots, interests, clock, op, arg, call, loc,
                   outcome, result, before, scope>>

\* the scope ends: commit, return True
track_event_exit ==
    /\ pc = "track_event_exit"
    /\ get_session_exit(FALSE)
    /\ IF SessionCommits(FALSE) THEN Return("True") ELSE Raise("IntegrityError")
    /\ UNCHANGED <<clock, op, arg, call, loc, before>>

----------------------------------------------------------------------------
(* DataCollector._collect_tracked_events (collect_events(tracked_only=True)) *)

\* the scope of phase 1 opens
collect_tracked_enter ==
    /\ MayStart(0)
    /\ Begin("collect_tracked", <<>>)
    /\ Running
    /\ sessions' = Append(sessions, NewSession)
    /\ pc' = "collect_tracked_query"
    /\ call' = NoCall
    /\ loc' = NoLoc
    /\ UNCHANGED <<events, snapshots, interests, clock>>

\* session.query(UserInterest).filter_by(is_active=True): UserInterest maps no
\* is_active, the query raises, the scope rolls back and the exception leaves
\* collect_events; nothing after line 60 runs
collect_tracked_query ==
    /\ pc = "collect_tracked_query"
    /\ filter_by_raises(UserInterestColumns, "is_active")
    /\ get_session_exit(TRUE)
    /\ Raise("InvalidRequestError")
    /\ UNCHANGED <<clock, op, arg, call, loc, before>>

----------------------------------------------------------------------------

\* time passes.  Only the INSERT of a snapshot reads the clock (the default of
\* snapshot_time), so the clock moves while a store_event scope is open
Tick ==
    /\ clock < MaxTime
    /\ pc = "store_event_exit"
    /\ clock' = clock + 1
    /\ UNCHANGED <<events, snapshots, interests, sessions, pc, op, arg, call, loc,
                   outcome, result, before, scope>>

Init ==
    /\ events = {}
    /\ snapshots = {}
    /\ interests = {}
    /\ clock = 0
    /\ sessions = <<>>
    /\ pc = "idle"
    /\ op = "none"
    /\ arg = None
    /\ call = NoCall
    /\ loc = NoLoc
    /\ outcome = "none"
    /\ result = None
    /\ before = [events |-> {}, snapshots |-> {}, interests |-> {}]
    /\ scope = NoScope

Next ==
    \/ StoreRecord
    \/ store_event_exit
    \/ collect_events_search_fails
    \/ collect_events_search
    \/ collect_events_parse_error
    \/ collect_events_store
    \/ collect_events_stored
    \/ collect_events_return
    \/ collect_tracked_enter
    \/ collect_tracked_query
    \/ track_event_begin
    \/ track_event_fetch_raises
    \/ track_event_not_found
    \/ track_event_parse_raises
    \/ track_event_store
    \/ track_event_stored
    \/ track_event_existing
    \/ track_event_new
    \/ track_event_exit
    \/ Tick

Spec == Init /\ [][Next]_vars

----------------------------------------------------------------------------
(* track_event when the storage engine fails under it: the lookup of the      *)
(* interest (a statement on the outer session, after store_event has          *)
(* committed) raises OperationalError, as SQLite does when another process    *)
(* holds the database locked                                                  *)

track_event_query_fails ==
    /\ pc = "track_event_interest"
    /\ get_session_exit(TRUE)
    /\ Raise("OperationalError")
    /\ UNCHANGED <<clock, op, arg, call, loc, before>>

TrackNext ==
    \/ StoreRecord
    \/ store_event_exit
    \/ track_event_begin
    \/ track_event_fetch_raises
    \/ track_event_not_found
    \/ track_event_parse_raises
    \/ track_event_store
    \/ track_event_stored
    \/ track_event_existing
    \/ track_event_new
    \/ track_event_exit
    \/ track_event_query_fails
    \/ Tick

SpecTrack == Init /\ [][TrackNext]_vars

----------------------------------------------------------------------------
(* parse_event_data on every shape of raw record, inside the loop of           *)
(* collect_events: the search has returned one record, the store is empty     *)

ParseRaws ==
    [id : {None, Some("E1")},
     name : {None, Some("Concert")},
     url : {None, Some("https://example.com/E1")},
     priceRanges : {<<>>, RawA1.priceRanges, RawA2.priceRanges},
     venues : {<<>>, RawA1.venues, RawB1.venues},
     dateTime : {None, RawA1.dateTime, RawA2.dateTime},
     classifications : {<<>>, RawA1.classifications, RawA2.classifications}]

ParseInit ==
    /\ events = {}
    /\ snapshots = {}
    /\ interests = {}
    /\ clock = 0
    /\ sessions = <<>>
    /\ pc = "collect_events"
    /\ op = "collect_events"
    /\ \E raw \in ParseRaws :
          /\ arg = <<raw>>
          /\ loc = [events |-> <<raw>>, i |-> 1, fetched |-> 1,
                    created |-> 0, updated |-> 0, errors |-> <<>>, resp |-> None]
    /\ call = NoCall
    /\ outcome = "none"
    /\ result = None
    /\ before = [events |-> {}, snapshots |-> {}, interests |-> {}]
    /\ scope = NoScope

ParseNext ==
    \/ collect_events_parse_error
    \/ collect_events_store
    \/ store_event_exit
    \/ collect_events_stored
    \/ collect_events_return
    \/ Tick

SpecParse == ParseInit /\ [][ParseNext]_vars

----------------------------------------------------------------------------
(* Properties *)

EventsOf(table, event_id) == {e \in table : e.id = event_id}
SnapshotsOf(table, event_id) == {x \in table : x.event_id = event_id}

\* the stored event carries the descriptive fields of the record; the start
\* time is the record's instant, stored without its time zone
CarriesDescriptiveFields(e, data) ==
    /\ e.id = data.id
    /\ e.name = data.name
    /\ e.event_type = data.event_type
    /\ e.venue_name = data.venue_name
    /\ e.city = data.city
    /\ e.state = data.state
    /\ e.url = data.url
    /\ (e.start_date = None) = (data.start_date = None)
    /\ data.start_date # None => e.start_date[1].wall = data.start_date[1].wall

StoreEventEnded == op = "store_event" /\ pc = "idle"

\* C1: store_event on a record whose identifier has no stored Event returns
\* "created", and afterwards exactly one Event and exactly one PriceSnapshot
\* exist for the identifier, the Event carrying the record's descriptive fields.
C1_StoreNewCreates ==
    (StoreEventEnded /\ EventsOf(before.events, arg.id) = {}) =>
        /\ outcome = "returned"
        /\ result = Some("created")
        /\ Cardinality(EventsOf(events, arg.id)) = 1
        /\ Cardinality(SnapshotsOf(snapshots, arg.id)) = 1
        /\ \A e \in EventsOf(events, arg.id) : CarriesDescriptiveFields(e, arg)

\* a record with a start time was created while another event was stored
C1_Witness ==
    /\ StoreEventEnded
    /\ EventsOf(before.events, arg.id) = {}
    /\ before.events # {}
    /\ arg.start_date # None
    /\ result = Some("created")

\* the snapshot of this call collides with a stored one on (event_id, snapshot_time)
StoreCollides ==
    \E x \in before.snapshots : x.event_id = arg.id /\ x.snapshot_time = call.at

\* C2 as stated: store_event on a record whose identifier has a stored Event
\* always returns "updated", leaves the Event unchanged and adds one snapshot.
C2_StoreExistingAlwaysUpdates ==
    (StoreEventEnded /\ EventsOf(before.events, arg.id) # {}) =>
        /\ outcome = "returned"
        /\ result = Some("updated")
        /\ EventsOf(events, arg.id) = EventsOf(before.events, arg.id)
        /\ Cardinality(SnapshotsOf(snapshots, arg.id)) =
              Cardinality(SnapshotsOf(before.snapshots, arg.id)) + 1

\* C2 (amended): store_event on a record whose identifier has a stored Event
\* returns "updated", leaves every field of the Event unchanged and adds exactly
\* one snapshot for the identifier, unless the new snapshot collides with a
\* stored one on (event_id, snapshot_time): then, and only then, it raises
\* IntegrityError and leaves all tables as they were.
C2_StoreExistingUpdatesUnlessCollision ==
    (StoreEventEnded /\ EventsOf(before.events, arg.id) # {}) =>
        IF StoreCollides
        THEN /\ outcome = "raised"
             /\ result = Some("IntegrityError")
             /\ Tables = before
        ELSE /\ outcome = "returned"
             /\ result = Some("updated")
             /\ events = before.events
             /\ Cardinality(SnapshotsOf(snapshots, arg.id)) =
                   Cardinality(SnapshotsOf(before.snapshots, arg.id)) + 1

\* an event was updated by a record whose name differs from the stored name
C2_Witness ==
    /\ StoreEventEnded
    /\ result = Some("updated")
    /\ \E e \in EventsOf(events, arg.id) : e.name # arg.name

\* C3: the store never holds two Events with the same identifier, whatever
\* sequence of store_event, collect_events, tracked collection and track_event
\* ran, batches that repeat an identifier included.
C3_OneEventPerId ==
    \A e1, e2 \in events : e1.id = e2.id => e1 = e2

\* a batch that held one identifier twice, with different names, stored both
C3_Witness ==
    /\ op = "collect_events" /\ pc = "idle" /\ outcome = "returned"
    /\ result[1].created >= 1 /\ result[1].updated >= 1
    /\ \E i, j \in 1..Len(arg) :
          /\ i < j
          /\ arg[i].id = arg[j].id /\ arg[i].id # None
          /\ arg[i].name # arg[j].name
    /\ Cardinality(events) = 2

\* C4: price history is append-only and round-trips: no step changes or removes
\* a stored snapshot, and a store_event call that returns adds exactly one
\* snapshot, which carries the identifier, min price, max price and currency
\* of the call's record verbatim (nulls included) and the time of the insert.
C4_HistoryAppendOnly ==
    [][/\ snapshots \subseteq snapshots'
       /\ IF pc = "store_event_exit" /\ call'.status = "returned"
          THEN \E x \in snapshots' \ snapshots :
                  /\ snapshots' = snapshots \cup {x}
                  /\ x.event_id = call.data.id
                  /\ x.min_price = call.data.min_price
                  /\ x.max_price = call.data.max_price
                  /\ x.currency = call.data.currency
                  /\ x.snapshot_time = clock
          ELSE snapshots' = snapshots]_vars

\* one identifier has two snapshots with different prices, one with a null
C4_Witness ==
    \E x, y \in snapshots :
        /\ x.event_id = y.event_id
        /\ x.id < y.id
        /\ x.min_price = Some(50) /\ x.max_price = Some(150)
        /\ y.min_price = Some(45) /\ y.max_price = None

CollectReturned == op = "collect_events" /\ pc = "idle" /\ outcome = "returned"

ParseFailures(raws) ==
    Cardinality({i \in 1..Len(raws) : parse_error(raws[i]) # None})

IsStorageError(entry) == entry.error = "IntegrityError"
IsParseError(entry) == entry.error # "IntegrityError"

\* C5: collect_events over N raw records returns fetched = N; the records that
\* were stored (one new snapshot each) are counted in created + updated, every
\* other record has one entry in errors, those that fail in parse_event_data
\* included, so fetched = created + updated + len(errors): no failure ends the loop.
C5_BatchAccounting ==
    CollectReturned =>
        LET r == result[1]
            N == Len(arg)
            stored == Cardinality(snapshots) - Cardinality(before.snapshots)
        IN  /\ r.fetched = N
            /\ r.created + r.updated = stored
            /\ Len(r.errors) = N - stored
            /\ r.fetched = r.created + r.updated + Len(r.errors)
            /\ Len(SelectSeq(r.errors, IsParseError)) = ParseFailures(arg)
            /\ loc.i = N + 1

\* three records: the first fails in parse_event_data, the second is created,
\* the third fails in storage
C5_Witness ==
    /\ CollectReturned
    /\ Len(arg) = 3
    /\ parse_error(arg[1]) # None
    /\ result[1].created = 1
    /\ Len(result[1].errors) = 2
    /\ IsStorageError(result[1].errors[2])

\* C6: in collect_events each record is stored in its own scope: when the
\* scope of record k rolls back, every table keeps what the records before k
\* committed and the scope is closed, and the loop then goes on to record k + 1
\* with the tables as record k found them.
C6_RollbackIsPerRecord ==
    [][/\ (pc = "store_event_exit" /\ call.caller = "collect_events_stored"
              /\ call'.status = "raised") =>
            /\ events' = events /\ snapshots' = snapshots /\ interests' = interests
            /\ before.events \subseteq events' /\ before.snapshots \subseteq snapshots'
            /\ Cardinality(snapshots') =
                  Cardinality(before.snapshots) + loc.created + loc.updated
            /\ sessions' = <<>>
            /\ pc' = "collect_events_stored"
       /\ (pc = "collect_events_stored" /\ call.status = "raised") =>
            /\ events' = events /\ snapshots' = snapshots /\ interests' = interests
            /\ loc'.i = loc.i + 1
            /\ pc' = "collect_events"]_vars

\* three records that parse: the second fails in storage, the first and the
\* third are created
C6_Witness ==
    /\ CollectReturned
    /\ Len(arg) = 3
    /\ \A i \in 1..3 : parse_error(arg[i]) = None
    /\ result[1].created = 2
    /\ Len(result[1].errors) = 1
    /\ IsStorageError(result[1].errors[1])
    /\ result[1].errors[1].event_id = arg[2].id[1]
    /\ arg[1].id = arg[2].id
    /\ Cardinality(snapshots) = Cardinality(before.snapshots) + 2

\* C7 as stated: no failure aborts collect_events, a transport failure of the
\* search call included: the run always ends by returning its summary.
C7_CollectNeverRaises ==
    (op = "collect_events" /\ pc = "idle") => outcome = "returned"

TrackedEnded == op = "collect_tracked" /\ pc = "idle"

\* the event of this interest is stored with a start time before now
EventIsPast(interest, table, now) ==
    \E e \in EventsOf(table, interest.event_id) :
        e.start_date # None /\ e.start_date[1].wall < now

Deactivated(interest, table) ==
    \E j \in table :
        j.id = interest.id /\ "is_active" \in DOMAIN j /\ j.is_active = FALSE

\* C8 as stated: a tracked-mode run sets every interest whose event started
\* before now inactive (and does not refresh its event).
C8_PastInterestsDeactivated ==
    (TrackedEnded /\ \E i \in before.interests : EventIsPast(i, before.events, clock)) =>
        /\ outcome = "returned"
        /\ \A i \in before.interests :
              EventIsPast(i, before.events, clock) => Deactivated(i, interests)

\* C9 as stated: the result of a tracked-mode run holds a skipped count.
C9_TrackedResultHasSkipped ==
    TrackedEnded =>
        /\ outcome = "returned"
        /\ "skipped" \in DOMAIN result[1]

\* C10 as stated: a tracked-mode run creates no Event and returns created = 0.
C10_TrackedNeverCreates ==
    TrackedEnded =>
        /\ events = before.events
        /\ outcome = "returned"
        /\ result[1].created = 0

\* the work list of a tracked-mode run: the interests whose event is not past
WorkList(table, eventTable, now) ==
    {i \in table : ~EventIsPast(i, eventTable, now)}

\* C11 as stated: a tracked-mode run with a work list ends by returning its
\* summary, in which every entry of the work list is either counted as updated
\* or has one error entry: no failure of one identifier ends the loop.
C11_RefreshRecordsEachFailure ==
    (TrackedEnded /\ WorkList(before.interests, before.events, clock) # {}) =>
        /\ outcome = "returned"
        /\ result[1].updated + Len(result[1].errors) =
              Cardinality(WorkList(before.interests, before.events, clock))

TrackEnded == op = "track_event" /\ pc = "idle"

\* the detail request was made and get_event_details returned None
LookupAbsent ==
    /\ loc.resp # None
    /\ ~get_event_details_raises(loc.resp[1])
    /\ get_event_details(loc.resp[1]) = None

\* C12: track_event for an event that is not stored and whose detail lookup
\* returns None returns False and leaves every table as it was: no
\* UserInterest, no Event and no PriceSnapshot is created.
C12_TrackAbsentStoresNothing ==
    (TrackEnded /\ EventsOf(before.events, arg.event_id) = {} /\ LookupAbsent) =>
        /\ outcome = "returned"
        /\ result = Some("False")
        /\ Tables = before
        /\ sessions = <<>>

\* the provider answered 404 for an event while another event was stored
C12_Witness ==
    /\ TrackEnded
    /\ LookupAbsent
    /\ loc.resp[1].status = 404
    /\ result = Some("False")
    /\ events # {}
    /\ EventsOf(events, arg.event_id) = {}

InterestsOf(table, event_id, user_email) ==
    {i \in table : i.event_id = event_id /\ i.user_email = user_email}

IsActive(interest) == "is_active" \in DOMAIN interest /\ interest.is_active = TRUE

\* C13 as stated: track_event for a pair that already has a UserInterest (the
\* deactivated ones included) returns True, leaves the row active with the
\* given target price, and the pair keeps exactly one row.
C13_RetrackReactivates ==
    (TrackEnded /\ InterestsOf(before.interests, arg.event_id, arg.user_email) # {}) =>
        /\ outcome = "returned"
        /\ result = Some("True")
        /\ Cardinality(InterestsOf(interests, arg.event_id, arg.user_email)) = 1
        /\ \A i \in InterestsOf(interests, arg.event_id, arg.user_email) :
              IsActive(i) /\ i.target_price = arg.target_price

\* C14: there is at most one UserInterest row per (event_id, user_email) pair,
\* whatever sequence of track_event and tracked collection ran, although no
\* constraint of the table enforces it.
C14_OneInterestPerPair ==
    \A i, j \in interests :
        (i.event_id = j.event_id /\ i.user_email = j.user_email) => i = j

\* track_event ran again for a pair that was tracked, with another target price
C14_Witness ==
    /\ TrackEnded
    /\ \E i \in InterestsOf(before.interests, arg.event_id, arg.user_email) :
          i.target_price # arg.target_price
    /\ Cardinality(InterestsOf(interests, arg.event_id, arg.user_email)) = 1

\* C15 as stated: track_event returns False only when the event is not stored
\* and the provider reports it absent (404); on every other path it returns
\* True, and then an active UserInterest of the pair with the given target
\* price is stored.
C15_TrackFalseOnlyWhenAbsent ==
    TrackEnded =>
        /\ result = Some("False") =>
              /\ EventsOf(before.events, arg.event_id) = {}
              /\ loc.resp # None /\ loc.resp[1].status = 404
        /\ EventsOf(before.events, arg.event_id) # {} => result = Some("True")
        /\ result = Some("True") =>
              \E i \in InterestsOf(interests, arg.event_id, arg.user_email) :
                  IsActive(i) /\ i.target_price = arg.target_price

\* C16 as stated: get_event_details returns None only when the provider
\* answers "not found" (404); every other failure of the request, another HTTP
\* error status included, reaches the caller as an exception.
C16_AbsentOnlyOnNotFound ==
    (TrackEnded /\ loc.resp # None /\ make_request_raises(loc.resp[1])) =>
        IF loc.resp[1].status = 404
        THEN LookupAbsent /\ result = Some("False")
        ELSE ~LookupAbsent /\ outcome = "raised"

\* the scope that ended last belongs to the call that is back at its caller
ScopeOfCall ==
    \/ StoreEventEnded
    \/ pc \in {"collect_events_stored", "track_event_stored"}

\* C17 as stated: a scope whose body completes normally commits once, does not
\* roll back and raises nothing; a scope whose body raises rolls back, does not
\* commit and re-raises; the session is closed once, last, on every path.
C17_ScopeCommitsOrRollsBack ==
    /\ scope.body = "returned" =>
          scope.calls = <<"commit", "close">> /\ ~scope.raises
    /\ scope.body = "raised" =>
          scope.calls = <<"rollback", "close">> /\ scope.raises

\* C17 (amended): a scope whose body completes normally commits once; when the
\* commit succeeds there is no rollback and nothing is raised, when the commit
\* itself fails the session rolls back and the commit's error is raised; a
\* scope whose body raises rolls back, does not commit and re-raises; on every
\* path the session is closed exactly once, after the commit or rollback, and
\* what the scope raises reaches the caller of the operation.
C17_ScopeProtocol ==
    /\ (scope.body = "returned" /\ scope.commit = "done") =>
          scope.calls = <<"commit", "close">> /\ ~scope.raises
    /\ (scope.body = "returned" /\ scope.commit = "failed") =>
          scope.calls = <<"commit", "rollback", "close">> /\ scope.raises
    /\ scope.body = "raised" =>
          /\ scope.commit = "none"
          /\ scope.calls = <<"rollback", "close">>
          /\ scope.raises
    /\ scope.body # "none" =>
          /\ scope.commit = "none" <=> scope.body = "raised"
          /\ Cardinality({k \in 1..Len(scope.calls) : scope.calls[k] = "close"}) = 1
          /\ scope.calls[Len(scope.calls)] = "close"
    /\ ScopeOfCall => (scope.raises <=> call.status = "raised")
    /\ (TrackEnded \/ TrackedEnded) => (scope.raises <=> outcome = "raised")

\* the body of store_event completed and its commit failed
C17_Witness ==
    /\ StoreEventEnded
    /\ scope.body = "returned"
    /\ scope.commit = "failed"
    /\ outcome = "raised"
    /\ sessions = <<>>

\* C18: a store_event call that fails on a constraint raises IntegrityError to
\* its caller and leaves events and price_snapshots exactly as they were before
\* the call, so no two stored snapshots share (event_id, snapshot_time).
C18_CollisionLeavesStoreUnchanged ==
    /\ \A x, y \in snapshots :
          (x.event_id = y.event_id /\ x.snapshot_time = y.snapshot_time) => x = y
    /\ (StoreEventEnded /\ outcome = "raised") =>
          /\ result = Some("IntegrityError")
          /\ events = before.events
          /\ snapshots = before.snapshots
    /\ (pc \in {"collect_events_stored", "track_event_stored"}
           /\ call.status = "raised") =>
          \E x \in snapshots :
              x.event_id = call.data.id /\ x.snapshot_time = call.at

\* a second record of a stored identifier arrived within the same instant and
\* was rejected, with other prices than the stored snapshot
C18_Witness ==
    /\ StoreEventEnded
    /\ outcome = "raised"
    /\ StoreCollides
    /\ \E x \in snapshots :
          /\ x.event_id = arg.id /\ x.snapshot_time = call.at
          /\ x.min_price # arg.min_price

\* C19: parse_event_data raises KeyError exactly when the raw record lacks an
\* id or a name; with both present it succeeds whatever optional field is
\* missing, and the normalized record holds None for each missing field; in
\* collect_events the failure becomes one error entry that carries the record's
\* id or "unknown" and the record's name or "Unknown".
C19_NormalizeRequiresIdAndName ==
    (CollectReturned /\ Len(arg) = 1) =>
        LET raw == arg[1]
            r == result[1]
            failed == Len(SelectSeq(r.errors, IsParseError)) = 1
        IN  /\ (raw.id = None \/ raw.name = None) <=> failed
            /\ failed =>
                  /\ Len(r.errors) = 1
                  /\ r.errors[1].event_id = IF raw.id = None THEN "unknown" ELSE raw.id[1]
                  /\ r.errors[1].event_name =
                        IF raw.name = None THEN "Unknown" ELSE raw.name[1]
                  /\ r.created = 0 /\ r.updated = 0
                  /\ call = NoCall
            /\ ~failed =>
                  /\ r.created + r.updated + Len(r.errors) = 1
                  /\ call.caller = "collect_events_stored"
                  /\ call.data.id = raw.id[1]
                  /\ call.data.name = raw.name[1]
                  /\ raw.url = None => call.data.url = None
                  /\ raw.priceRanges = <<>> =>
                        call.data.min_price = None /\ call.data.max_price = None
                  /\ raw.venues = <<>> =>
                        /\ call.data.venue_name = None
                        /\ call.data.city = None
                        /\ call.data.state = None
                  /\ raw.dateTime = None => call.data.start_date = None
                  /\ raw.classifications = <<>> => call.data.event_type = None

\* a record with an id and no name, and nothing else missing, was rejected
C19_Witness ==
    /\ CollectReturned
    /\ Len(arg) = 1
    /\ arg[1].id = Some("E1") /\ arg[1].name = None
    /\ arg[1].priceRanges # <<>> /\ arg[1].venues # <<>>
    /\ Len(result[1].errors) = 1
    /\ result[1].errors[1].event_id = "E1"
    /\ result[1].errors[1].event_name = "Unknown"
    /\ events = {}

\* C20 as stated: in a tracked-mode run the scope of phase 1 ends by commit and
\* is closed, with no session left open, before the first detail fetch, and
\* the run then goes on to fetch the entries of its work list.
C20_Phase1CommitsBeforeFetch ==
    [][(pc = "collect_tracked_query" /\ pc' # "collect_tracked_query") =>
          /\ scope'.calls = <<"commit", "close">>
          /\ sessions' = <<>>
          /\ WorkList(interests, events, clock) # {} => pc' # "idle"]_vars

\* C21 as stated: in every operation at most one session scope is open at any
\* time: a scope opens only after the previous scope of the call has closed.
C21_OneScopeOpen ==
    Len(sessions) <= 1

\* C22: every stored PriceSnapshot refers to a stored Event and every stored
\* Event has at least one PriceSnapshot, whatever sequence of operations ran
\* and whether they succeeded or failed: a new Event and its first snapshot
\* are committed together or not at all.
C22_SnapshotsAndEventsAgree ==
    /\ \A x \in snapshots : EventsOf(events, x.event_id) # {}
    /\ \A e \in events : SnapshotsOf(snapshots, e.id) # {}

\* a batch created two events and had a record rejected by storage
C22_Witness ==
    /\ CollectReturned
    /\ before.events = {}
    /\ result[1].created = 2
    /\ Len(SelectSeq(result[1].errors, IsStorageError)) = 1
    /\ Cardinality(events) = 2
    /\ Cardinality(snapshots) = 2

\* the records of the batch that parse
Parsed(raws) == {i \in 1..Len(raws) : parse_error(raws[i]) = None}

\* the batch holds one identifier, twice, and no Event of it was stored
UnseenTwice ==
    /\ Cardinality(Parsed(arg)) = 2
    /\ \A i, j \in Parsed(arg) : arg[i].id = arg[j].id
    /\ \A i \in Parsed(arg) : EventsOf(before.events, arg[i].id[1]) = {}

\* the second of the two records was stored in the instant of the first
SecondCollided ==
    \A x \in SnapshotsOf(snapshots, call.data.id) : x.snapshot_time = call.at

\* C23 as stated: a collect_events run adds created Events and created +
\* updated PriceSnapshots to the store, and a batch that holds one unseen
\* identifier twice counts it once as created and once as updated.
C23_BatchCountsTwiceSeen ==
    CollectReturned =>
        /\ Cardinality(events) = Cardinality(before.events) + result[1].created
        /\ Cardinality(snapshots) =
              Cardinality(before.snapshots) + result[1].created + result[1].updated
        /\ UnseenTwice => result[1].created = 1 /\ result[1].updated = 1

\* C23 (amended): a collect_events run adds created Events and created +
\* updated PriceSnapshots to the store, and a batch that holds one unseen
\* identifier twice counts it once as created and once as updated, unless the
\* second record is stored in the instant of the first: then its snapshot
\* collides with the first one, and the record is counted as an error and not
\* as updated.
C23_BatchCountsMatchStore ==
    CollectReturned =>
        /\ Cardinality(events) = Cardinality(before.events) + result[1].created
        /\ Cardinality(snapshots) =
              Cardinality(before.snapshots) + result[1].created + result[1].updated
        /\ UnseenTwice =>
              /\ result[1].created = 1
              /\ IF SecondCollided
                 THEN /\ result[1].updated = 0
                      /\ Len(SelectSeq(result[1].errors, IsStorageError)) = 1
                 ELSE /\ result[1].updated = 1
                      /\ Len(SelectSeq(result[1].errors, IsStorageError)) = 0

\* an unseen identifier came twice in one batch, at two instants, while
\* another event was stored
C23_Witness ==
    /\ CollectReturned
    /\ UnseenTwice
    /\ before.events # {}
    /\ result[1].created = 1
    /\ result[1].updated = 1
    /\ Cardinality(events) = Cardinality(before.events) + 1
    /\ Cardinality(snapshots) = Cardinality(before.snapshots) + 2

\* C24 as stated: a tracked-mode run returns fetched = the number of interests
\* that were active when it started and that it did not deactivate, counted
\* per interest: one for each row whose Event is missing, has no start time or
\* has not started.
C24_FetchedCountsInterests ==
    TrackedEnded =>
        /\ outcome = "returned"
        /\ result[1].fetched =
              Cardinality(WorkList(before.interests, before.events, clock))
        /\ interests = before.interests

\* track_event stored an event that was not stored, and then raised
TrackFailedAfterStore ==
    /\ TrackEnded
    /\ outcome = "raised"
    /\ EventsOf(before.events, arg.event_id) = {}
    /\ call.status = "returned"

\* C25: when track_event stores a not-yet-stored event and then raises before
\* its own scope commits, the Event and its first PriceSnapshot stay
\* committed (the scope of store_event wrote them) and no UserInterest row is
\* created or changed.
C25_StoredEventSurvivesTrackFailure ==
    TrackFailedAfterStore =>
        /\ call.data.id = arg.event_id
        /\ events = before.events \cup {EventRow(call.data)}
        /\ before.snapshots \subseteq snapshots
        /\ Cardinality(snapshots) = Cardinality(before.snapshots) + 1
        /\ Cardinality(SnapshotsOf(snapshots, arg.event_id)) = 1
        /\ interests = before.interests
        /\ sessions = <<>>
        /\ scope.calls = <<"rollback", "close">>

\* the lookup of the interest failed after the event was stored, while
\* another event was in the store
C25_Witness ==
    /\ TrackFailedAfterStore
    /\ result = Some("OperationalError")
    /\ before.events # {}
    /\ Cardinality(events) = 2
    /\ interests = {}

====
